---- MODULE Spec2Model ----
(***************************************************************************)
(* Model of the ts-result pattern matcher (class Matcher, match.ts) on a   *)
(* single-threaded event loop: synchronous calls of when()/default()/      *)
(* orElse(), promise reactions run as microtasks, and the zero-delay timer *)
(* of default()/orElse() runs as a macrotask once no microtask is left.    *)
(* A second specification, AlgebraSpec, follows chains of method calls on  *)
(* Result containers (result.ts) and the calls of the predicate registry   *)
(* (predicates.ts) that a Matcher built with options.predicates makes.     *)
(***************************************************************************)
EXTENDS Integers, Sequences, FiniteSets, TLC

\* Largest number of when() calls made on the one Matcher.
MaxClauses == 2

----------------------------------------------------------------------------
(* JavaScript values: a type tag and an integer payload.                   *)

Undefined == [t |-> "undefined", v |-> 0]

Null == [t |-> "null", v |-> 0]

Num(n) == [t |-> "number", v |-> n]

Str(n) == [t |-> "string", v |-> n]

\* The subjects handed to match(): 42 and null.
Subjects == {Num(42), Null}

\* Type guards of the registry that the clauses' predicates use.
isString(val) == val.t = "string"

isNumber(val) == val.t = "number"

PredNames == {"isNumber", "isString"}

\* How a caller-supplied function produces its value: at once, through a
\* promise that settles with microtask work only, or through a promise that
\* waits for a later macrotask (a timer, I/O).
Modes == {"sync", "micro", "macro"}

\* handler(this.value) of the c-th registered clause: n => n * 2, offset by
\* the clause's position so that the handlers of different clauses differ.
HandlerOut(c, arg) == Num(arg.v * 2 + c)

\* The fallback handler h of default(h), applied to the subject.
FallbackOut(arg) == Str(arg.v + 1)

\* The literal handed to orElse(v).
OrElseValue == Str(0)

----------------------------------------------------------------------------
(* Containers: Ok / Err of result.ts and Some / None of option.ts, as the  *)
(* discriminant and the payload.                                           *)

ok(val) == [t |-> "ok", v |-> val]

err(error) == [t |-> "err", v |-> error]

some(val) == [t |-> "some", v |-> val]

none == [t |-> "none", v |-> Undefined]

Bool(b) == [t |-> "boolean", v |-> IF b THEN 1 ELSE 0]

\* new Error(message)
NewError(message) == [t |-> "error", v |-> message]

\* The text "Error: " that String() puts before the message of an Error,
\* as an offset on the number that stands for the message's text.
ErrorText == 100

\* The text "undefined"
UndefinedText == Str(98)

\* String(x) for the error values of the model: a string is kept, an Error
\* becomes "Error: " followed by its message, undefined becomes "undefined".
String(val) ==
  CASE val.t = "string" -> val
    [] val.t = "error" -> Str(ErrorText + val.v.v)
    [] val.t = "undefined" -> UndefinedText

\* The text ": " that Err.expect puts between the message and String(error),
\* as a factor on the number that stands for the message's text.
ColonText == 10000

\* `${message}: ${String(error)}`
MessageAndError(message, error) == Str(message.v * ColonText + String(error).v)

\* The text "None.unwrap()"
NoneUnwrapText == Str(99)

\* typeof val
TypeOf(val) ==
  CASE val.t \in {"number", "string", "boolean", "undefined"} -> val.t
    [] OTHER -> "object"

\* Promise.resolve(val): a promise already resolved with val
PromiseResolve(val) == [t |-> "resolved", v |-> val]

\* The promise an asynchronous callback returns: pending, to fulfil with val
Pending(val) == [t |-> "pending", v |-> val]

\* An array of the values in seq
Arr(seq) == [t |-> "array", v |-> seq]

\* How a method call ends: it returns a value or throws one; calls lists the
\* invocations of the callback it was handed, in order.
Return(val, calls) == [kind |-> "return", v |-> val, calls |-> calls]

Throw(val) == [kind |-> "throw", v |-> val, calls |-> <<>>]

Invocation(fn, arg) == [fn |-> fn, arg |-> arg]

\* Callbacks handed to map: x => x * 2 and x => x + 1.
Fns == {"twice", "next"}

\* Callbacks handed to mapErr: e => String(e) and e => new Error(String(e)).
ErrFns == {"String", "wrap"}

\* Callbacks handed to andThen: x => ok(x * 2) and _ => err("error").
BindFns == {"okTwice", "fail"}

\* Callbacks handed to orElse: _ => ok(0) and e => err(new Error(String(e))).
RecoverFns == {"recover", "refail"}

\* Callbacks handed to asyncThen: async x => ok(x * 2), async _ => err("error").
AsyncBindFns == {"asyncOkTwice", "asyncFail"}

\* Callbacks handed to asyncOrElse: async _ => ok(0) and
\* async e => err(new Error(String(e))).
AsyncRecoverFns == {"asyncRecover", "asyncRefail"}

\* Callbacks handed to Option.andThen: x => some(x * 2) and _ => none().
OptionBindFns == {"someTwice", "toNone"}

\* Callbacks without argument handed to Option.orElse: () => some(0) and
\* () => none().
OptionThunks == {"someZero", "noThing"}

\* Callbacks without argument handed to unwrapOrElse and mapOrElse of an
\* Option: () => 0 and () => 1.
ValueThunks == {"zero", "one"}

\* The default values handed to unwrapOr and mapOr, and the message handed
\* to expect.
Defaults == {Num(0)}

Messages == {Str(9)}

\* The parameter type of a callback: the callbacks that double or increment
\* take a number, those that call String() take an error value (a string or
\* an Error); the others ignore their argument.
Accepts(fn, arg) ==
  /\ fn \in {"twice", "next", "okTwice", "someTwice", "asyncOkTwice"} => arg.t = "number"
  /\ fn \in {"String", "wrap", "refail", "asyncRefail"} => arg.t \in {"string", "error"}

\* fn(arg) for the callbacks above.
Apply(fn, arg) ==
  CASE fn = "twice" -> Num(arg.v * 2)
    [] fn = "next" -> Num(arg.v + 1)
    [] fn = "String" -> String(arg)
    [] fn = "wrap" -> NewError(String(arg))
    [] fn = "okTwice" -> ok(Num(arg.v * 2))
    [] fn = "fail" -> err(Str(1))
    [] fn = "recover" -> ok(Num(0))
    [] fn = "refail" -> err(NewError(String(arg)))
    [] fn = "someTwice" -> some(Num(arg.v * 2))
    [] fn = "toNone" -> none
    [] fn = "someZero" -> some(Num(0))
    [] fn = "noThing" -> none
    [] fn = "zero" -> Num(0)
    [] fn = "one" -> Num(1)
    [] fn = "asyncOkTwice" -> Pending(ok(Num(arg.v * 2)))
    [] fn = "asyncFail" -> Pending(err(Str(1)))
    [] fn = "asyncRecover" -> Pending(ok(Num(0)))
    [] fn = "asyncRefail" -> Pending(err(NewError(String(arg))))

(* class Ok *)

Ok_isOk(self) == TRUE

Ok_isErr(self) == FALSE

Ok_unwrap(self) == Return(self.v, <<>>)

Ok_unwrapOr(self, d) == Return(self.v, <<>>)

Ok_unwrapOrElse(self, fn) == Return(self.v, <<>>)

Ok_expect(self, message) == Return(self.v, <<>>)

Ok_map(self, fn) == Return(ok(Apply(fn, self.v)), <<Invocation(fn, self.v)>>)

Ok_mapErr(self, fn) == Return(self, <<>>)

\* Variant: andThen wraps what the function returns, as map does.
OkAndThenWraps(self, fn) == Return(ok(Apply(fn, self.v)), <<Invocation(fn, self.v)>>)

Ok_andThen(self, fn) == Return(Apply(fn, self.v), <<Invocation(fn, self.v)>>)

Ok_orElse(self, fn) == Return(self, <<>>)

Ok_and(self, res) == Return(res, <<>>)

Ok_or(self, res) == Return(self, <<>>)

Ok_ok(self) == Return(some(self.v), <<>>)

Ok_err(self) == Return(none, <<>>)

Ok_match(self, okFn, errFn) == Return(Apply(okFn, self.v), <<Invocation(okFn, self.v)>>)

Ok_asyncThen(self, fn) == Return(Apply(fn, self.v), <<Invocation(fn, self.v)>>)

Ok_asyncOrElse(self, fn) == Return(PromiseResolve(self), <<>>)

(* class Err *)

Err_isOk(self) == FALSE

Err_isErr(self) == TRUE

Err_unwrap(self) == Throw(NewError(String(self.v)))

Err_unwrapOr(self, d) == Return(d, <<>>)

Err_unwrapOrElse(self, fn) == Return(Apply(fn, self.v), <<Invocation(fn, self.v)>>)

Err_expect(self, message) == Throw(NewError(MessageAndError(message, self.v)))

\* Variant: map on an Err calls the function on the error before it returns
\* itself.
ErrMapCallsFn(self, fn) == Return(self, <<Invocation(fn, self.v)>>)

Err_map(self, fn) == Return(self, <<>>)

Err_mapErr(self, fn) == Return(err(Apply(fn, self.v)), <<Invocation(fn, self.v)>>)

Err_andThen(self, fn) == Return(self, <<>>)

Err_orElse(self, fn) == Return(Apply(fn, self.v), <<Invocation(fn, self.v)>>)

\* Variant: and on an Err returns its argument.
ErrAndReturnsOther(self, res) == Return(res, <<>>)

Err_and(self, res) == Return(self, <<>>)

Err_or(self, res) == Return(res, <<>>)

Err_ok(self) == Return(none, <<>>)

\* Variant: err() on an Err returns an empty Option.
ErrErrIsNone(self) == Return(none, <<>>)

Err_err(self) == Return(some(self.v), <<>>)

Err_match(self, okFn, errFn) == Return(Apply(errFn, self.v), <<Invocation(errFn, self.v)>>)

\* Variant: asyncThen on an Err returns the Err itself, not a promise of it.
ErrAsyncThenBare(self, fn) == Return(self, <<>>)

Err_asyncThen(self, fn) == Return(PromiseResolve(self), <<>>)

Err_asyncOrElse(self, fn) == Return(Apply(fn, self.v), <<Invocation(fn, self.v)>>)

(* class Some *)

Some_isSome(self) == TRUE

Some_isNone(self) == FALSE

Some_unwrap(self) == Return(self.v, <<>>)

Some_unwrapOr(self, d) == Return(self.v, <<>>)

Some_unwrapOrElse(self, fn) == Return(self.v, <<>>)

Some_expect(self, message) == Return(self.v, <<>>)

Some_map(self, fn) == Return(some(Apply(fn, self.v)), <<Invocation(fn, self.v)>>)

Some_mapOr(self, d, fn) == Return(Apply(fn, self.v), <<Invocation(fn, self.v)>>)

Some_mapOrElse(self, defaultFn, fn) ==
  Return(Apply(fn, self.v), <<Invocation(fn, self.v)>>)

Some_andThen(self, fn) == Return(Apply(fn, self.v), <<Invocation(fn, self.v)>>)

Some_or(self, opt) == Return(self, <<>>)

\* Variant: orElse on a Some calls the function and returns its Option.
SomeOrElseCalls(self, fn) == Return(Apply(fn, Undefined), <<Invocation(fn, Undefined)>>)

Some_orElse(self, fn) == Return(self, <<>>)

Some_match(self, someFn, noneFn) ==
  Return(Apply(someFn, self.v), <<Invocation(someFn, self.v)>>)

(* class None *)

None_isSome(self) == FALSE

None_isNone(self) == TRUE

None_unwrap(self) == Throw(NewError(NoneUnwrapText))

None_unwrapOr(self, d) == Return(d, <<>>)

None_unwrapOrElse(self, fn) == Return(Apply(fn, Undefined), <<Invocation(fn, Undefined)>>)

\* Variant: expect on a None returns undefined.
NoneExpectReturns(self, message) == Return(Undefined, <<>>)

None_expect(self, message) == Throw(NewError(message))

None_map(self, fn) == Return(self, <<>>)

None_mapOr(self, d, fn) == Return(d, <<>>)

None_mapOrElse(self, defaultFn, fn) ==
  Return(Apply(defaultFn, Undefined), <<Invocation(defaultFn, Undefined)>>)

None_andThen(self, fn) == Return(self, <<>>)

None_or(self, opt) == Return(opt, <<>>)

None_orElse(self, fn) == Return(Apply(fn, Undefined), <<Invocation(fn, Undefined)>>)

None_match(self, someFn, noneFn) ==
  Return(Apply(noneFn, Undefined), <<Invocation(noneFn, Undefined)>>)

(* utils.ts: all, any *)

\* The loop of all from element i on, values holding what was pushed so far.
RECURSIVE AllFrom(_, _, _)
AllFrom(results, i, values) ==
  IF i > Len(results)
  THEN ok(Arr(values))
  ELSE IF (IF results[i].t = "ok" THEN Ok_isErr(results[i]) ELSE Err_isErr(results[i]))
  THEN err(results[i].v)
  ELSE AllFrom(results, i + 1, Append(values, results[i].v))

\* Variant: all without the test of isErr: it pushes every element's payload.
AllWithoutErrTest(results) == ok(Arr([i \in 1..Len(results) |-> results[i].v]))

all(results) == AllFrom(results, 1, <<>>)

\* The loop of any from element i on.
RECURSIVE AnyFrom(_, _)
AnyFrom(results, i) ==
  IF i > Len(results)
  THEN \* err(results[0]?.error ?? (undefined as E))
       err(IF Len(results) = 0 \/ results[1].v \in {Null, Undefined}
           THEN Undefined ELSE results[1].v)
  ELSE IF (IF results[i].t = "ok" THEN Ok_isOk(results[i]) ELSE Err_isOk(results[i]))
  THEN results[i]
  ELSE AnyFrom(results, i + 1)

any(results) == AnyFrom(results, 1)

----------------------------------------------------------------------------
(* The registry of predicates (predicates.ts): each name is bound to an    *)
(* implementation; a built-in implementation is named by its own key.      *)

BuiltinNames ==
  {"isString", "isNumber", "isNull", "isObject", "isOk", "isErr", "isSome", "isNone"}

predicates == [n \in BuiltinNames |-> n]

isNull(val) == val = Null

isObject(val) == TypeOf(val) = "object" /\ val # Null

\* typeof (val as any).<method> === "function"
HasMethod(val, method) ==
  \/ method \in {"isOk", "isErr"} /\ val.t \in {"ok", "err"}
  \/ method \in {"isSome", "isNone"} /\ val.t \in {"some", "none"}

\* (val as any).<method>()
CallMethod(val, method) ==
  CASE method = "isOk" -> IF val.t = "ok" THEN Ok_isOk(val) ELSE Err_isOk(val)
    [] method = "isErr" -> IF val.t = "ok" THEN Ok_isErr(val) ELSE Err_isErr(val)
    [] method = "isSome" -> IF val.t = "some" THEN Some_isSome(val) ELSE None_isSome(val)
    [] method = "isNone" -> IF val.t = "some" THEN Some_isNone(val) ELSE None_isNone(val)

\* Variant: the shape predicate asks for the method and does not call it.
ShapeWithoutCall(val, method) ==
  TypeOf(val) = "object" /\ val # Null /\ HasMethod(val, method)

\* predicates.isOk / isErr / isSome / isNone
Shape(val, method) ==
  TypeOf(val) = "object" /\ val # Null /\ HasMethod(val, method)
    /\ CallMethod(val, method) = TRUE

\* The property names of a value: the fields and methods of the four
\* container classes; the other values of the model have none of interest.
Properties(val) ==
  CASE val.t = "ok" ->
         {"_", "value", "isOk", "isErr", "unwrap", "unwrapOr", "unwrapOrElse", "expect",
          "map", "mapErr", "andThen", "orElse", "and", "or", "ok", "err", "match",
          "asyncThen", "asyncOrElse"}
    [] val.t = "err" ->
         {"_", "error", "isOk", "isErr", "unwrap", "unwrapOr", "unwrapOrElse", "expect",
          "map", "mapErr", "andThen", "orElse", "and", "or", "ok", "err", "match",
          "asyncThen", "asyncOrElse"}
    [] val.t = "some" ->
         {"_", "value", "isSome", "isNone", "unwrap", "unwrapOr", "unwrapOrElse", "expect",
          "map", "mapOr", "mapOrElse", "andThen", "or", "orElse", "match"}
    [] val.t = "none" ->
         {"_", "isSome", "isNone", "unwrap", "unwrapOr", "unwrapOrElse", "expect",
          "map", "mapOr", "mapOrElse", "andThen", "or", "orElse", "match"}
    [] OTHER -> {}

\* The exported guards isOk, isErr, isSome, isNone:
\* typeof val === "object" && val !== null && "_Ok" in val, and so on.
isOk(val) == TypeOf(val) = "object" /\ val # Null /\ "_Ok" \in Properties(val)

isErr(val) == TypeOf(val) = "object" /\ val # Null /\ "_Err" \in Properties(val)

isSome(val) == TypeOf(val) = "object" /\ val # Null /\ "_Some" \in Properties(val)

isNone(val) == TypeOf(val) = "object" /\ val # Null /\ "_None" \in Properties(val)

\* The guards index.ts exports for the containers.
GuardNames == {"isOk", "isErr", "isSome", "isNone"}

\* guard(val) for an exported guard named as in index.ts
CallGuard(guard, val) ==
  CASE guard = "isOk" -> isOk(val)
    [] guard = "isErr" -> isErr(val)
    [] guard = "isSome" -> isSome(val)
    [] guard = "isNone" -> isNone(val)

\* The implementation a caller supplies: (v) => v !== null
isCustom(val) == val # Null

\* impl(val) for an implementation of the registry
CallPredicate(impl, val) ==
  CASE impl = "isString" -> isString(val)
    [] impl = "isNumber" -> isNumber(val)
    [] impl = "isNull" -> isNull(val)
    [] impl = "isObject" -> isObject(val)
    [] impl \in {"isOk", "isErr", "isSome", "isNone"} -> Shape(val, impl)
    [] impl = "custom" -> isCustom(val)

\* options.predicates left out
NoPredicates == [n \in {} |-> "custom"]

\* The options.predicates a caller passes: none, a new name, a built-in's name.
OptionsPredicates ==
  {NoPredicates, [n \in {"isCustom"} |-> "custom"], [n \in {"isNumber"} |-> "custom"]}

\* Variant: the spreads in the other order, { ...options.predicates, ...predicates }.
BuiltinsOverOptions(opts) ==
  [n \in DOMAIN predicates \cup DOMAIN opts |->
     IF n \in DOMAIN predicates THEN predicates[n] ELSE opts[n]]

\* { ...predicates, ...options.predicates }
MergedPredicates(opts) ==
  [n \in DOMAIN predicates \cup DOMAIN opts |->
     IF n \in DOMAIN opts THEN opts[n] ELSE predicates[n]]

----------------------------------------------------------------------------
VARIABLES
  value,        \* Matcher.value: the subject
  execution,    \* Matcher.execution
  hasMatch,     \* Matcher.hasMatch
  result,       \* Matcher.result
  isAsync,      \* Matcher.isAsync
  clauses,      \* log of the when() calls, in registration order
  tasks,        \* promise reactions not yet run
  term,         \* the terminal call (default / orElse) and what it returned
  resultWrites  \* history: how many times this.result was assigned

\* A second Matcher and a chain of method calls on a container.
VARIABLES
  optionsPredicates,  \* options.predicates handed to match()
  thisPredicates,     \* Matcher.predicates
  recv,               \* the value at hand: the receiver of the next call
  last,               \* the last call: receiver, arguments and how it ended
  steps               \* number of calls made

algebraVars == <<optionsPredicates, thisPredicates, recv, last, steps>>

vars == <<value, execution, hasMatch, result, isAsync, clauses, tasks, term, resultWrites,
          optionsPredicates, thisPredicates, recv, last, steps>>

\* predicate(this.value, this.predicates) for (v, p) => p.<name>(v)
PredicateValue(name, val) == CallPredicate(thisPredicates[name], val)

\* The terminal call: which one (op), where it stands (st: "timer" while its
\* zero-delay timer is pending, "await" while the fallback handler's promise
\* is, "done" once the caller holds the value out), what the call returned
\* (ret: a plain "value", the engine's own "promise", or the fallback
\* handler's "handlerPromise"), how many clauses were registered when it was
\* called (n), and whether the decision took the fallback (fell).
TermRec(op, st, fmode, ret, out, n, fell) ==
  [op |-> op, st |-> st, fmode |-> fmode, ret |-> ret, out |-> out, n |-> n,
   fell |-> fell]

NoTerm == TermRec("none", "none", "sync", "none", Undefined, 0, FALSE)

\* No call made yet on the value at hand.
NoCall ==
  [op |-> "none", recv |-> Undefined, fn |-> "none", fn2 |-> "none",
   arg |-> Undefined, kind |-> "none", out |-> Undefined, calls |-> <<>>]

\* new Matcher(value, options): the fields of the Matcher that dispatches
MatcherInit ==
  /\ value \in Subjects
  /\ execution \in {"parallel", "sequential"}
  /\ hasMatch = FALSE
  /\ result = Undefined
  /\ isAsync = FALSE
  /\ clauses = <<>>
  /\ tasks = {}
  /\ term = NoTerm
  /\ resultWrites = 0

\* match(value): a Matcher built without options.predicates; no container
\* is at hand.
Init ==
  /\ MatcherInit
  /\ optionsPredicates = NoPredicates
  /\ thisPredicates = MergedPredicates(optionsPredicates)
  /\ recv = Undefined
  /\ last = NoCall
  /\ steps = 0

----------------------------------------------------------------------------
(* Event loop: a reaction of a promise that needs microtask work only runs *)
(* before any macrotask; a macrotask (the zero-delay timer, the settlement *)
(* of a promise that waits for a timer or I/O) starts only when no         *)
(* microtask is left.                                                      *)

MicrotasksLeft == \E u \in tasks : u.speed = "micro"

CanRun(t) == t.speed = "micro" \/ ~MicrotasksLeft

Task(kind, c, speed) == [kind |-> kind, c |-> c, speed |-> speed]

NoteWrite == resultWrites' = resultWrites + 1

----------------------------------------------------------------------------
(* Matcher.when                                                            *)

\* Variant: when() without its early return.
WhenNeverSkips == FALSE

\* Variant: in sequential mode when() also drops a clause registered while
\* an earlier predicate is still pending.
WhenSkipsWhileSequentialPending ==
  hasMatch \/ (execution = "sequential" /\ \E u \in tasks : u.kind = "pred")

\* if (this.hasMatch) return this;
WhenSkips == hasMatch

\* Variant: the reaction commits on a true predicate without the flag check.
SettleCommitsUnguarded(isMatch) == isMatch

\* if (isMatch && !this.hasMatch), in the reaction of an asynchronous predicate
SettleCommits(isMatch) == isMatch /\ ~hasMatch

\* Variant: the commit leaves the flag as it was.
MarkMatchedForgotten == hasMatch

\* this.hasMatch = true;
MarkMatched == TRUE

\* The record of a when() call in the log of clauses: the predicate, how the
\* predicate and the handler produce their values (known once the function is
\* called or kept by a reaction; "none" for a function the call dropped), and
\* the calls made so far.
Clause(pname, pmode, hmode) ==
  [pname |-> pname, pmode |-> pmode, hmode |-> hmode, skipped |-> FALSE,
   predCalls |-> 1, handlerCalls |-> 0, handlerArg |-> Undefined]

\* The argument handed to a clause's handler: handler(this.value as U)
HandlerArgument == value

When(pname, pmode, hmode) ==
  /\ Len(clauses) < MaxClauses
  /\ LET c == Len(clauses) + 1
         entry == Clause(pname, pmode, hmode)
     IN  IF WhenSkips
         THEN /\ clauses' = Append(clauses, [Clause(pname, "none", "none") EXCEPT
                                               !.skipped = TRUE, !.predCalls = 0])
              /\ UNCHANGED <<hasMatch, result, isAsync, tasks, resultWrites>>
         ELSE IF pmode # "sync"
         THEN \* predicateResult instanceof Promise
              /\ isAsync' = TRUE
              /\ tasks' = tasks \cup {Task("pred", c, pmode)}
              /\ clauses' = Append(clauses, entry)
              /\ UNCHANGED <<hasMatch, result, resultWrites>>
         ELSE IF PredicateValue(pname, value)
         THEN /\ hasMatch' = MarkMatched
              /\ clauses' = Append(clauses, [entry EXCEPT !.handlerCalls = 1,
                                                           !.handlerArg = HandlerArgument])
              /\ IF hmode # "sync"
                 THEN /\ isAsync' = TRUE
                      /\ tasks' = tasks \cup {Task("handler", c, hmode)}
                      /\ UNCHANGED <<result, resultWrites>>
                 ELSE /\ result' = HandlerOut(c, HandlerArgument)
                      /\ NoteWrite
                      /\ UNCHANGED <<isAsync, tasks>>
         ELSE /\ clauses' = Append(clauses, Clause(pname, pmode, "none"))
              /\ UNCHANGED <<hasMatch, result, isAsync, tasks, resultWrites>>
  /\ UNCHANGED <<value, execution, term>>
  /\ UNCHANGED algebraVars

\* predicateResult.then((isMatch) => { ... }) of clause t.c
SettlePredicate(t) ==
  /\ t \in tasks /\ t.kind = "pred" /\ CanRun(t)
  /\ LET c == t.c
         isMatch == PredicateValue(clauses[c].pname, value)
     IN  IF SettleCommits(isMatch)
         THEN /\ hasMatch' = MarkMatched
              /\ clauses' = [clauses EXCEPT ![c].handlerCalls = @ + 1,
                                            ![c].handlerArg = HandlerArgument]
              /\ IF clauses[c].hmode # "sync"
                 THEN /\ tasks' = (tasks \ {t}) \cup {Task("handler", c, clauses[c].hmode)}
                      /\ UNCHANGED <<result, resultWrites>>
                 ELSE /\ tasks' = tasks \ {t}
                      /\ result' = HandlerOut(c, HandlerArgument)
                      /\ NoteWrite
         ELSE /\ tasks' = tasks \ {t}
              /\ UNCHANGED <<hasMatch, result, clauses, resultWrites>>
  /\ UNCHANGED <<value, execution, isAsync, term>>
  /\ UNCHANGED algebraVars

\* handlerResult.then((r) => { this.result = r as R; }) of clause t.c
SettleHandler(t) ==
  /\ t \in tasks /\ t.kind = "handler" /\ CanRun(t)
  /\ result' = HandlerOut(t.c, clauses[t.c].handlerArg)
  /\ NoteWrite
  /\ tasks' = tasks \ {t}
  /\ UNCHANGED <<value, execution, hasMatch, isAsync, clauses, term>>
  /\ UNCHANGED algebraVars

----------------------------------------------------------------------------
(* Matcher.default and Matcher.orElse                                      *)

\* Variant: the terminal call defers to its timer whatever isAsync says.
TerminalAlwaysDefers == TRUE

\* if (this.isAsync)
TerminalDefers == isAsync

\* Variant: the terminal value is the literal whatever the Matcher holds.
OutcomeIgnoresCommit(fallback) == fallback

\* this.hasMatch ? this.result : <fallback>
Outcome(fallback) == IF hasMatch THEN result ELSE fallback

\* What default(handler) decides, in the call itself or in its timer, for a
\* handler whose value is fout: the committed result, or the handler's value,
\* which is awaited first when the handler returns a promise.
DefaultDecision(fmode, ret, n, fout) ==
  IF hasMatch
  THEN TermRec("default", "done", fmode, ret, result, n, FALSE)
  ELSE IF fmode = "sync"
  THEN TermRec("default", "done", fmode, ret, fout, n, TRUE)
  ELSE TermRec("default", "await", fmode,
               IF ret = "value" THEN "handlerPromise" ELSE ret, Undefined, n, TRUE)

\* The promise that the fallback handler returned, if the decision called it
\* and it returned one.
FallbackTasks(fmode) ==
  IF hasMatch \/ fmode = "sync" THEN {} ELSE {Task("fallback", 0, fmode)}

\* Variant: a promise returned by the fallback handler is never chained to
\* resolve, so nothing settles the promise that default returned.
DefaultDropsFallbackPromise(fmode, ret, n) ==
  /\ term' = DefaultDecision(fmode, ret, n, FallbackOut(value))
  /\ UNCHANGED tasks

\* The decision of default(handler) as a step.
DefaultDecides(fmode, ret, n) ==
  /\ term' = DefaultDecision(fmode, ret, n, FallbackOut(value))
  /\ tasks' = tasks \cup FallbackTasks(fmode)

\* What the call default(handler) leaves: its timer when the Matcher is
\* asynchronous, its decision otherwise.
DefaultReturns(fmode, fout) ==
  IF TerminalDefers
  THEN TermRec("default", "timer", fmode, "promise", Undefined, Len(clauses), FALSE)
  ELSE DefaultDecision(fmode, "value", Len(clauses), fout)

\* One terminal call is followed per Matcher; when() may still be called on
\* the Matcher afterwards.
Default(fmode) ==
  /\ term.op = "none"
  /\ IF TerminalDefers
     THEN /\ term' = DefaultReturns(fmode, FallbackOut(value))
          /\ UNCHANGED tasks
     ELSE DefaultDecides(fmode, "value", Len(clauses))
  /\ UNCHANGED <<value, execution, hasMatch, result, isAsync, clauses, resultWrites>>
  /\ UNCHANGED algebraVars

\* setTimeout(() => { ... }, 0) of default
DefaultTimer ==
  /\ term.op = "default" /\ term.st = "timer" /\ ~MicrotasksLeft
  /\ DefaultDecides(term.fmode, "promise", term.n)
  /\ UNCHANGED <<value, execution, hasMatch, result, isAsync, clauses, resultWrites>>
  /\ UNCHANGED algebraVars

\* handlerResult.then((r) => resolve(r)), or the caller's await of h(subject)
SettleFallback(t) ==
  /\ t \in tasks /\ t.kind = "fallback" /\ CanRun(t)
  /\ term' = [term EXCEPT !.st = "done", !.out = FallbackOut(value)]
  /\ tasks' = tasks \ {t}
  /\ UNCHANGED <<value, execution, hasMatch, result, isAsync, clauses, resultWrites>>
  /\ UNCHANGED algebraVars

\* What orElse(v) decides, in the call itself or in its timer.
OrElseDecision(ret, n, v) ==
  TermRec("orElse", "done", "sync", ret, Outcome(v), n, ~hasMatch)

\* The decision of orElse(result) as a step.
OrElseDecides(ret, n) == term' = OrElseDecision(ret, n, OrElseValue)

\* What the call orElse(v) leaves: its timer when the Matcher is asynchronous,
\* its decision otherwise.
OrElseReturns(v) ==
  IF TerminalDefers
  THEN TermRec("orElse", "timer", "sync", "promise", Undefined, Len(clauses), FALSE)
  ELSE OrElseDecision("value", Len(clauses), v)

OrElse ==
  /\ term.op = "none"
  /\ term' = OrElseReturns(OrElseValue)
  /\ UNCHANGED <<value, execution, hasMatch, result, isAsync, clauses, tasks, resultWrites>>
  /\ UNCHANGED algebraVars

\* setTimeout(() => { resolve(...) }, 0) of orElse
OrElseTimer ==
  /\ term.op = "orElse" /\ term.st = "timer" /\ ~MicrotasksLeft
  /\ OrElseDecides("promise", term.n)
  /\ UNCHANGED <<value, execution, hasMatch, result, isAsync, clauses, tasks, resultWrites>>
  /\ UNCHANGED algebraVars

----------------------------------------------------------------------------
Next ==
  \/ \E pname \in PredNames, pmode \in Modes, hmode \in Modes : When(pname, pmode, hmode)
  \/ \E t \in tasks : SettlePredicate(t)
  \/ \E t \in tasks : SettleHandler(t)
  \/ \E fmode \in Modes : Default(fmode)
  \/ DefaultTimer
  \/ \E t \in tasks : SettleFallback(t)
  \/ OrElse
  \/ OrElseTimer

Spec == Init /\ [][Next]_vars

\* A turn of the event loop: a promise reaction or a due timer callback.
EventLoop ==
  \/ \E t \in tasks : SettlePredicate(t)
  \/ \E t \in tasks : SettleHandler(t)
  \/ \E t \in tasks : SettleFallback(t)
  \/ DefaultTimer
  \/ OrElseTimer

\* The event loop keeps running while a reaction or a timer is due, and a
\* pending computation settles; the caller is free to stop calling.
FairSpec == Spec /\ WF_vars(EventLoop)

----------------------------------------------------------------------------
(* Faults of the caller-supplied functions: a predicate or a handler that  *)
(* throws during when(), and a predicate whose promise rejects.            *)

\* The process was terminated on an unhandled rejection: no reaction and no
\* timer callback runs any more.
Crashed == \E u \in tasks : u.kind = "crash"

\* when(predicate, handler) where predicate(this.value, this.predicates)
\* throws: the exception leaves when() from the line of the call.
WhenPredicateThrows(pname) ==
  /\ ~Crashed
  /\ Len(clauses) < MaxClauses
  /\ ~WhenSkips
  /\ clauses' = Append(clauses, Clause(pname, "throw", "none"))
  /\ UNCHANGED <<value, execution, hasMatch, result, isAsync, tasks, term, resultWrites>>
  /\ UNCHANGED algebraVars

\* when(predicate, handler) where the predicate returns true at once and
\* handler(this.value) throws: the exception leaves when() from the line of
\* the call, after this.hasMatch = true and before any assignment to
\* this.result.
WhenHandlerThrows(pname) ==
  /\ ~Crashed
  /\ Len(clauses) < MaxClauses
  /\ ~WhenSkips
  /\ PredicateValue(pname, value)
  /\ hasMatch' = MarkMatched
  /\ clauses' = Append(clauses, [Clause(pname, "sync", "throw") EXCEPT
                                   !.handlerCalls = 1, !.handlerArg = HandlerArgument])
  /\ UNCHANGED <<value, execution, result, isAsync, tasks, term, resultWrites>>
  /\ UNCHANGED algebraVars

\* when(predicate, handler) where the predicate returns a promise that will
\* reject: predicateResult.then(onFulfilled) is given no rejection handler.
WhenPredicateRejects(pname, speed) ==
  /\ ~Crashed
  /\ Len(clauses) < MaxClauses
  /\ ~WhenSkips
  /\ isAsync' = TRUE
  /\ tasks' = tasks \cup {Task("reject", Len(clauses) + 1, speed)}
  /\ clauses' = Append(clauses, Clause(pname, "reject", "none"))
  /\ UNCHANGED <<value, execution, hasMatch, result, term, resultWrites>>
  /\ UNCHANGED algebraVars

\* The promise of clause t.c's predicate rejects. The reaction is skipped and
\* the promise that then() returned rejects with nothing handling it; what
\* follows is the host's choice: the rejection is reported and the program
\* goes on (browsers, Node with --unhandled-rejections=warn), or the process
\* is terminated (Node's default since version 15).
RejectPredicate(t) ==
  /\ ~Crashed
  /\ t \in tasks /\ t.kind = "reject" /\ CanRun(t)
  /\ \/ tasks' = tasks \ {t}
     \/ tasks' = {Task("crash", 0, "micro")}
  /\ UNCHANGED <<value, execution, hasMatch, result, isAsync, clauses, term, resultWrites>>
  /\ UNCHANGED algebraVars

FaultNext ==
  \/ \E pname \in PredNames, pmode \in Modes, hmode \in Modes :
       ~Crashed /\ When(pname, pmode, hmode)
  \/ \E pname \in PredNames : WhenPredicateThrows(pname)
  \/ \E pname \in PredNames : WhenHandlerThrows(pname)
  \/ \E pname \in PredNames, speed \in Modes \ {"sync"} : WhenPredicateRejects(pname, speed)
  \/ \E t \in tasks : RejectPredicate(t)
  \/ \E t \in tasks : ~Crashed /\ SettlePredicate(t)
  \/ \E t \in tasks : ~Crashed /\ SettleHandler(t)
  \/ \E fmode \in Modes : ~Crashed /\ Default(fmode)
  \/ ~Crashed /\ DefaultTimer
  \/ \E t \in tasks : ~Crashed /\ SettleFallback(t)
  \/ ~Crashed /\ OrElse
  \/ ~Crashed /\ OrElseTimer

FaultSpec == Init /\ [][FaultNext]_vars

\* A turn of the event loop of a process that is still running.
FaultEventLoop ==
  \/ ~Crashed /\ EventLoop
  \/ \E t \in tasks : RejectPredicate(t)

FaultFairSpec == FaultSpec /\ WF_vars(FaultEventLoop)

----------------------------------------------------------------------------
(* Properties of the Matcher                                               *)

\* The clauses among the first n whose predicate is true on the subject.
TrueClauses(n) == {c \in 1..n : PredicateValue(clauses[c].pname, value)}

\* The earliest-registered clause of a non-empty set.
First(S) == CHOOSE c \in S : \A d \in S : c <= d

\* None of the first n clauses produced a promise, as predicate or as handler.
SyncOnly(n) ==
  \A c \in 1..n : clauses[c].pmode \in {"sync", "none"} /\ clauses[c].hmode \in {"sync", "none"}

\* The clauses whose handler has been invoked.
Invoked == {c \in 1..Len(clauses) : clauses[c].handlerCalls > 0}

\* The clauses whose predicate's promise has not settled yet.
InFlight == {t.c : t \in {u \in tasks : u.kind = "pred"}}

\* C1: with synchronous predicates and handlers only, default(h) returns the
\* handler result of the earliest-registered clause whose predicate is true
\* on the subject, however many later clauses' predicates are true as well.
C1_FirstRegisteredWins ==
  (term.op = "default" /\ SyncOnly(term.n) /\ TrueClauses(term.n) # {}) =>
    /\ term.st = "done"
    /\ term.out = HandlerOut(First(TrueClauses(term.n)), value)

\* C1's case: two clauses with true predicates, and default has returned.
C1_Witness ==
  /\ term.op = "default" /\ term.st = "done" /\ SyncOnly(term.n)
  /\ Cardinality(TrueClauses(term.n)) >= 2

\* C2: in every interleaving at most one clause handler is invoked; it is
\* invoked once, with the subject, and only after that clause's own predicate
\* was called, has settled and is true.
C2_AtMostOneHandler ==
  /\ Cardinality(Invoked) <= 1
  /\ \A c \in Invoked :
       /\ clauses[c].handlerCalls = 1
       /\ clauses[c].handlerArg = value
       /\ clauses[c].predCalls = 1
       /\ c \notin InFlight
       /\ PredicateValue(clauses[c].pname, value)

\* C2's case: two asynchronous predicates, both true, both settled.
C2_Witness ==
  /\ Len(clauses) = 2 /\ InFlight = {} /\ TrueClauses(2) = {1, 2}
  /\ \A c \in 1..2 : clauses[c].pmode \in {"micro", "macro"}
  /\ Cardinality(Invoked) = 1

\* C3: hasMatch never goes from true back to false, and result is written at
\* most once, and only in a step that leaves hasMatch true.
C3_CommitOnce ==
  [][ /\ hasMatch => hasMatch'
      /\ resultWrites' # resultWrites =>
            (hasMatch' /\ resultWrites = 0 /\ resultWrites' = 1)
      /\ result' # result => resultWrites' # resultWrites ]_vars

\* C3's case: the result was written by a handler's promise after the commit,
\* and the terminal call has come and gone.
C3_Witness ==
  /\ hasMatch /\ resultWrites = 1 /\ term.st = "done"
  /\ \E c \in Invoked : clauses[c].hmode # "sync"

\* C4: a clause whose predicate returned a promise that settles true with
\* microtask work only, registered before default(h) was called, commits the
\* Matcher; awaiting default(h) yields that clause's handler result and h is
\* never invoked.
C4_MicrotaskPredicateBeatsDefault ==
  \A c \in Invoked :
    (/\ term.op = "default" /\ term.st = "done" /\ c <= term.n
     /\ clauses[c].pmode = "micro") =>
       (term.out = HandlerOut(c, value) /\ ~term.fell)

\* No clause registered so far has a predicate that is true on the subject.
NoTrueClause == TrueClauses(Len(clauses)) = {}

\* C5: with no clause's predicate true, default(h) resolves to h(subject):
\* directly when nothing pending was involved, else through a promise that
\* settles with h(subject); every call of default ends with the caller
\* holding a value.
C5_DefaultTotal ==
  /\ [](( term.op = "default" /\ NoTrueClause ) =>
          /\ term.st = "done" => (term.fell /\ term.out = FallbackOut(value))
          /\ (SyncOnly(term.n) /\ term.fmode = "sync") =>
                (term.st = "done" /\ term.ret = "value"))
  /\ (term.op = "default") ~> (term.st = "done")

\* C5's case: the deferred path: a pending predicate that is false, the timer,
\* then a fallback handler whose own promise has settled.
C5_Witness ==
  /\ term.op = "default" /\ term.st = "done" /\ NoTrueClause
  /\ term.ret = "promise" /\ term.fmode # "sync" /\ term.n >= 1

\* C6: when the committed clause's handler returns a promise, awaiting
\* default()/orElse() yields the value that promise settles with.
C6_AsyncHandlerValueIsOutcome ==
  \A c \in Invoked :
    (/\ term.st = "done" /\ c <= term.n
     /\ clauses[c].pmode = "sync" /\ clauses[c].hmode # "sync") =>
       term.out = HandlerOut(c, value)

C8_WhenAfterCommitIsNoOp ==
  [][ (hasMatch /\ Len(clauses') = Len(clauses) + 1) =>
        /\ clauses'[Len(clauses')].predCalls = 0
        /\ clauses'[Len(clauses')].handlerCalls = 0
        /\ SubSeq(clauses', 1, Len(clauses)) = clauses
        /\ UNCHANGED <<hasMatch, result, isAsync, tasks, resultWrites>> ]_vars

\* C8's case: a skipped clause whose predicate is true on the subject.
C8_Witness ==
  \E c \in 1..Len(clauses) :
    clauses[c].skipped /\ PredicateValue(clauses[c].pname, value)

\* C9: once default(h)/orElse(v) has decided on the fallback, the decision is
\* terminal (the Matcher committed with the fallback as outcome); stated by
\* what a caller can observe of it: no clause handler is invoked afterwards,
\* by a later when() or by a predicate that settles true after the decision.
C9_FallbackDecisionIsTerminal == term.fell => Invoked = {}

\* C10: if no clause registered before it produced a promise, default(h)
\* returns without deferring: the handler result of the committed clause if
\* some predicate was true, else h(subject) itself.
C10_SyncDispatchReturnsAtOnce ==
  (term.op = "default" /\ SyncOnly(term.n)) =>
    /\ term.ret \in {"value", "handlerPromise"}
    /\ IF TrueClauses(term.n) # {}
       THEN /\ term.ret = "value" /\ term.st = "done" /\ ~term.fell
            /\ term.out = HandlerOut(First(TrueClauses(term.n)), value)
       ELSE /\ term.fell
            /\ term.fmode = "sync" => (term.ret = "value" /\ term.st = "done")
            /\ term.st = "done" => term.out = FallbackOut(value)

\* C10's case: two synchronous clauses, neither true, and default has
\* returned h(subject) as a plain value.
C10_Witness ==
  /\ term.op = "default" /\ term.n = 2 /\ SyncOnly(2) /\ TrueClauses(2) = {}
  /\ term.ret = "value" /\ term.st = "done"

----------------------------------------------------------------------------
(* orElse against default                                                  *)

\* The record of a default call read as the record of an orElse call.
AsOrElse(t) == [t EXCEPT !.op = "orElse"]

\* C11: on the same Matcher, in every state in which a terminal call can be
\* made and in every state in which its timer can fire, orElse(v) leaves what
\* default(() => v) leaves: the same choice between returning at once and
\* deferring by one timer, and the same value, the committed outcome if the
\* Matcher is committed at that moment and v otherwise.
C11_OrElseIsDefaultOfConstant ==
  /\ term.op = "none" =>
       OrElseReturns(OrElseValue) = AsOrElse(DefaultReturns("sync", OrElseValue))
  /\ term.st = "timer" =>
       OrElseDecision("promise", term.n, OrElseValue)
         = AsOrElse(DefaultDecision("sync", "promise", term.n, OrElseValue))

\* orElse was called on an asynchronous Matcher, its timer has fired, and the
\* value it delivered is the outcome committed by a clause.
C11_Witness ==
  /\ term.op = "orElse" /\ term.st = "done" /\ term.ret = "promise"
  /\ ~term.fell /\ hasMatch /\ term.out = result /\ result.t = "number"

----------------------------------------------------------------------------
(* The execution option                                                    *)

\* The step is a when() call: it registers clause Len(clauses) + 1.
WhenStep == Len(clauses') = Len(clauses) + 1

\* C12: with execution 'sequential' a when() call does not start its
\* predicate while the asynchronous predicate of an earlier clause is still
\* pending.
C12_SequentialWaitsForEarlierPredicate ==
  [][(execution = "sequential" /\ WhenStep /\ clauses'[Len(clauses')].predCalls > 0)
       => InFlight = {}]_vars

----------------------------------------------------------------------------
(* Calls on containers and on the registry: a value is at hand, and each   *)
(* step calls one method on it, or hands it with the registry to a         *)
(* predicate as a when() call does; the value returned by a method is the  *)
(* value at hand for the next call.                                        *)

\* Largest number of calls made in a chain.
MaxCalls == 2

\* The values an Ok holds and the errors an Err holds: ok(42), ok(7),
\* err("error"), err(new Error("Invalid email")).
OkValues == {Num(42), Num(7)}

ErrValues == {Str(1), NewError(Str(2))}

Results == {ok(val) : val \in OkValues} \cup {err(error) : error \in ErrValues}

Receivers == Results \cup {some(Num(42)), none, Num(42), Str(5), Null, Undefined}

Options == {some(Num(42)), some(Num(7)), none}

IsOption(val) == val.t \in {"some", "none"}

\* Largest number of Results in an array handed to all or any.
MaxResults == 3

ResultLists == UNION {[1..k -> Results] : k \in 0..MaxResults}

IsResult(val) == val.t \in {"ok", "err"}

matcherVars == <<value, execution, hasMatch, result, isAsync, clauses, tasks, term, resultWrites>>

\* match(recv, { predicates: optionsPredicates }) and a container at hand;
\* the Matcher is left as constructed.
AlgebraInit ==
  /\ MatcherInit /\ value = Num(42) /\ execution = "parallel"
  /\ optionsPredicates \in OptionsPredicates
  /\ thisPredicates = MergedPredicates(optionsPredicates)
  /\ recv \in Receivers
  /\ last = NoCall
  /\ steps = 0

\* The callback fn fits the receiver when the receiver is of the variant that
\* hands its payload to fn.
TypedFor(tag, fn) == recv.t = tag => Accepts(fn, recv.v)

\* The call op(...) on the value at hand, handed the callbacks fn and fn2 and
\* the value arg, ended as c says.
Call2(op, fn, fn2, arg, c) ==
  /\ steps < MaxCalls
  /\ last' = [op |-> op, recv |-> recv, fn |-> fn, fn2 |-> fn2, arg |-> arg,
              kind |-> c.kind, out |-> c.v, calls |-> c.calls]
  /\ steps' = steps + 1
  /\ UNCHANGED <<matcherVars, optionsPredicates, thisPredicates>>

Call(op, fn, arg, c) == Call2(op, fn, "none", arg, c)

\* The returned value is the receiver of the next call; a throw leaves the
\* receiver at hand.
Chain(c) == recv' = IF c.kind = "return" THEN c.v ELSE recv

\* predicate(this.value, this.predicates) for (v, p) => p.<name>(v)
WhenPredicate(name) ==
  /\ name \in DOMAIN thisPredicates
  /\ Call("predicate", name, Undefined, Return(Bool(PredicateValue(name, recv)), <<>>))
  /\ UNCHANGED recv

ResultUnwrap ==
  /\ IsResult(recv)
  /\ LET c == IF recv.t = "ok" THEN Ok_unwrap(recv) ELSE Err_unwrap(recv)
     IN  Call("unwrap", "none", Undefined, c) /\ Chain(c)

ResultMap(fn) ==
  /\ IsResult(recv)
  /\ TypedFor("ok", fn)
  /\ LET c == IF recv.t = "ok" THEN Ok_map(recv, fn) ELSE Err_map(recv, fn)
     IN  Call("map", fn, Undefined, c) /\ Chain(c)

ResultMapErr(fn) ==
  /\ IsResult(recv)
  /\ TypedFor("err", fn)
  /\ LET c == IF recv.t = "ok" THEN Ok_mapErr(recv, fn) ELSE Err_mapErr(recv, fn)
     IN  Call("mapErr", fn, Undefined, c) /\ Chain(c)

ResultAndThen(fn) ==
  /\ IsResult(recv)
  /\ TypedFor("ok", fn)
  /\ LET c == IF recv.t = "ok" THEN Ok_andThen(recv, fn) ELSE Err_andThen(recv, fn)
     IN  Call("andThen", fn, Undefined, c) /\ Chain(c)

ResultOrElse(fn) ==
  /\ IsResult(recv)
  /\ TypedFor("err", fn)
  /\ LET c == IF recv.t = "ok" THEN Ok_orElse(recv, fn) ELSE Err_orElse(recv, fn)
     IN  Call("orElse", fn, Undefined, c) /\ Chain(c)

ResultAnd(res) ==
  /\ IsResult(recv)
  /\ LET c == IF recv.t = "ok" THEN Ok_and(recv, res) ELSE Err_and(recv, res)
     IN  Call("and", "none", res, c) /\ Chain(c)

ResultOr(res) ==
  /\ IsResult(recv)
  /\ LET c == IF recv.t = "ok" THEN Ok_or(recv, res) ELSE Err_or(recv, res)
     IN  Call("or", "none", res, c) /\ Chain(c)

ResultOk ==
  /\ IsResult(recv)
  /\ LET c == IF recv.t = "ok" THEN Ok_ok(recv) ELSE Err_ok(recv)
     IN  Call("ok", "none", Undefined, c) /\ Chain(c)

ResultErr ==
  /\ IsResult(recv)
  /\ LET c == IF recv.t = "ok" THEN Ok_err(recv) ELSE Err_err(recv)
     IN  Call("err", "none", Undefined, c) /\ Chain(c)

ResultAsyncThen(fn) ==
  /\ IsResult(recv)
  /\ TypedFor("ok", fn)
  /\ LET c == IF recv.t = "ok" THEN Ok_asyncThen(recv, fn) ELSE Err_asyncThen(recv, fn)
     IN  Call("asyncThen", fn, Undefined, c) /\ Chain(c)

ResultAsyncOrElse(fn) ==
  /\ IsResult(recv)
  /\ TypedFor("err", fn)
  /\ LET c == IF recv.t = "ok" THEN Ok_asyncOrElse(recv, fn) ELSE Err_asyncOrElse(recv, fn)
     IN  Call("asyncOrElse", fn, Undefined, c) /\ Chain(c)

ResultIsOk ==
  /\ IsResult(recv)
  /\ Call("isOk", "none", Undefined,
          Return(Bool(IF recv.t = "ok" THEN Ok_isOk(recv) ELSE Err_isOk(recv)), <<>>))
  /\ UNCHANGED recv

ResultIsErr ==
  /\ IsResult(recv)
  /\ Call("isErr", "none", Undefined,
          Return(Bool(IF recv.t = "ok" THEN Ok_isErr(recv) ELSE Err_isErr(recv)), <<>>))
  /\ UNCHANGED recv

ResultUnwrapOr(d) ==
  /\ IsResult(recv)
  /\ LET c == IF recv.t = "ok" THEN Ok_unwrapOr(recv, d) ELSE Err_unwrapOr(recv, d)
     IN  Call("unwrapOr", "none", d, c) /\ Chain(c)

ResultUnwrapOrElse(fn) ==
  /\ IsResult(recv)
  /\ TypedFor("err", fn)
  /\ LET c == IF recv.t = "ok" THEN Ok_unwrapOrElse(recv, fn)
                               ELSE Err_unwrapOrElse(recv, fn)
     IN  Call("unwrapOrElse", fn, Undefined, c) /\ Chain(c)

ResultExpect(message) ==
  /\ IsResult(recv)
  /\ LET c == IF recv.t = "ok" THEN Ok_expect(recv, message) ELSE Err_expect(recv, message)
     IN  Call("expect", "none", message, c) /\ Chain(c)

\* result.match({ ok: okFn, err: errFn })
ResultMatch(okFn, errFn) ==
  /\ IsResult(recv)
  /\ TypedFor("ok", okFn)
  /\ TypedFor("err", errFn)
  /\ LET c == IF recv.t = "ok" THEN Ok_match(recv, okFn, errFn)
                               ELSE Err_match(recv, okFn, errFn)
     IN  Call2("match", okFn, errFn, Undefined, c) /\ Chain(c)

OptionIsSome ==
  /\ IsOption(recv)
  /\ Call("isSome", "none", Undefined,
          Return(Bool(IF recv.t = "some" THEN Some_isSome(recv) ELSE None_isSome(recv)), <<>>))
  /\ UNCHANGED recv

OptionIsNone ==
  /\ IsOption(recv)
  /\ Call("isNone", "none", Undefined,
          Return(Bool(IF recv.t = "some" THEN Some_isNone(recv) ELSE None_isNone(recv)), <<>>))
  /\ UNCHANGED recv

OptionUnwrap ==
  /\ IsOption(recv)
  /\ LET c == IF recv.t = "some" THEN Some_unwrap(recv) ELSE None_unwrap(recv)
     IN  Call("unwrap", "none", Undefined, c) /\ Chain(c)

OptionUnwrapOr(d) ==
  /\ IsOption(recv)
  /\ LET c == IF recv.t = "some" THEN Some_unwrapOr(recv, d) ELSE None_unwrapOr(recv, d)
     IN  Call("unwrapOr", "none", d, c) /\ Chain(c)

OptionUnwrapOrElse(fn) ==
  /\ IsOption(recv)
  /\ LET c == IF recv.t = "some" THEN Some_unwrapOrElse(recv, fn)
                                 ELSE None_unwrapOrElse(recv, fn)
     IN  Call("unwrapOrElse", fn, Undefined, c) /\ Chain(c)

OptionExpect(message) ==
  /\ IsOption(recv)
  /\ LET c == IF recv.t = "some" THEN Some_expect(recv, message)
                                 ELSE None_expect(recv, message)
     IN  Call("expect", "none", message, c) /\ Chain(c)

OptionMap(fn) ==
  /\ IsOption(recv)
  /\ TypedFor("some", fn)
  /\ LET c == IF recv.t = "some" THEN Some_map(recv, fn) ELSE None_map(recv, fn)
     IN  Call("map", fn, Undefined, c) /\ Chain(c)

OptionMapOr(d, fn) ==
  /\ IsOption(recv)
  /\ TypedFor("some", fn)
  /\ LET c == IF recv.t = "some" THEN Some_mapOr(recv, d, fn) ELSE None_mapOr(recv, d, fn)
     IN  Call("mapOr", fn, d, c) /\ Chain(c)

\* option.mapOrElse(defaultFn, fn)
OptionMapOrElse(defaultFn, fn) ==
  /\ IsOption(recv)
  /\ TypedFor("some", fn)
  /\ LET c == IF recv.t = "some" THEN Some_mapOrElse(recv, defaultFn, fn)
                                 ELSE None_mapOrElse(recv, defaultFn, fn)
     IN  Call2("mapOrElse", fn, defaultFn, Undefined, c) /\ Chain(c)

OptionAndThen(fn) ==
  /\ IsOption(recv)
  /\ TypedFor("some", fn)
  /\ LET c == IF recv.t = "some" THEN Some_andThen(recv, fn) ELSE None_andThen(recv, fn)
     IN  Call("andThen", fn, Undefined, c) /\ Chain(c)

OptionOr(opt) ==
  /\ IsOption(recv)
  /\ LET c == IF recv.t = "some" THEN Some_or(recv, opt) ELSE None_or(recv, opt)
     IN  Call("or", "none", opt, c) /\ Chain(c)

OptionOrElse(fn) ==
  /\ IsOption(recv)
  /\ LET c == IF recv.t = "some" THEN Some_orElse(recv, fn) ELSE None_orElse(recv, fn)
     IN  Call("orElse", fn, Undefined, c) /\ Chain(c)

\* option.match({ some: someFn, none: noneFn })
OptionMatch(someFn, noneFn) ==
  /\ IsOption(recv)
  /\ TypedFor("some", someFn)
  /\ LET c == IF recv.t = "some" THEN Some_match(recv, someFn, noneFn)
                                 ELSE None_match(recv, someFn, noneFn)
     IN  Call2("match", someFn, noneFn, Undefined, c) /\ Chain(c)

\* isOk(recv), isErr(recv), isSome(recv), isNone(recv) with the guards
\* imported from the package.
StandaloneGuard(guard) ==
  /\ Call("guard", guard, Undefined, Return(Bool(CallGuard(guard, recv)), <<>>))
  /\ UNCHANGED recv

(* async.ts: fromPromise *)

\* Promise.reject(val): a promise already rejected with val
PromiseReject(val) == [t |-> "rejected", v |-> val]

\* The promise of an async function whose body threw val: pending, to reject
\* with val
Rejecting(val) == [t |-> "rejecting", v |-> val]

\* The promises handed to fromPromise: fulfilled with 42, to fulfil with 7,
\* rejected with "error", rejected with new Error("Invalid email").
Promises ==
  {PromiseResolve(Num(42)), Pending(Num(7))} \cup {PromiseReject(error) : error \in ErrValues}

\* The error mappers handed to fromPromise: those of ErrFns, which return, and
\* (e) => { throw e }.
ErrorMappers == ErrFns \cup {"rethrow"}

\* Variant: no catch block, so the rejection of the awaited promise is the
\* rejection of the returned one and errorMapper is never called.
FromPromiseWithoutCatch(promise, errorMapper) ==
  IF promise.t = "rejected"
  THEN Return(Rejecting(promise.v), <<>>)
  ELSE Return(Pending(ok(promise.v)), <<>>)

\* try { return ok(await promise) } catch (error) { return err(errorMapper(error)) }
\* in an async function: the returned promise fulfils with what the body
\* returns and rejects with what escapes it.
fromPromise(promise, errorMapper) ==
  IF promise.t = "rejected"
  THEN [kind |-> "return",
        v |-> IF errorMapper = "rethrow"
              THEN Rejecting(promise.v)
              ELSE Pending(err(Apply(errorMapper, promise.v))),
        calls |-> <<Invocation(errorMapper, promise.v)>>]
  ELSE Return(Pending(ok(promise.v)), <<>>)

UtilFromPromise(promise, errorMapper) ==
  /\ Call("fromPromise", errorMapper, promise, fromPromise(promise, errorMapper))
  /\ UNCHANGED recv

\* new Matcher(val, options) for an options object with neither an execution
\* nor a predicates key: a Matcher holding val, uncommitted, with the built-in
\* registry and parallel execution; no field of options is called.
NewMatcher(val) == [t |-> "matcher", v |-> val]

\* match(val, { ok: fn, err: fn2 }) and match(val, { some: fn, none: fn2 }):
\* the second argument is taken as the options of a new Matcher.
match(val, fn, fn2) == Return(NewMatcher(val), <<>>)

\* The exported match called on the container at hand with a pattern object;
\* the value it returns is dropped.
MatchPattern(fn, fn2) ==
  /\ IsResult(recv) \/ IsOption(recv)
  /\ IsResult(recv) => fn2 \in ErrFns
  /\ IsOption(recv) => fn2 \in ValueThunks
  /\ TypedFor("ok", fn) /\ TypedFor("some", fn) /\ TypedFor("err", fn2)
  /\ Call2("matchPattern", fn, fn2, Undefined, match(recv, fn, fn2))
  /\ UNCHANGED recv

\* all(results) opens a chain: the array does not come from the container at
\* hand, and the Result returned is the receiver of the calls that follow.
UtilAll(results) ==
  LET c == Return(all(results), <<>>)
  IN  steps = 0 /\ Call("all", "none", Arr(results), c) /\ Chain(c)

\* any(results) opens a chain, as all(results) does.
UtilAny(results) ==
  LET c == Return(any(results), <<>>)
  IN  steps = 0 /\ Call("any", "none", Arr(results), c) /\ Chain(c)

AlgebraNext ==
  \/ \E name \in BuiltinNames \cup {"isCustom"} : WhenPredicate(name)
  \/ ResultUnwrap
  \/ \E fn \in Fns : ResultMap(fn)
  \/ \E fn \in ErrFns : ResultMapErr(fn)
  \/ \E fn \in BindFns : ResultAndThen(fn)
  \/ \E fn \in RecoverFns : ResultOrElse(fn)
  \/ \E res \in Results : ResultAnd(res)
  \/ \E res \in Results : ResultOr(res)
  \/ ResultOk
  \/ ResultErr
  \/ \E fn \in AsyncBindFns : ResultAsyncThen(fn)
  \/ \E fn \in AsyncRecoverFns : ResultAsyncOrElse(fn)
  \/ ResultIsOk
  \/ ResultIsErr
  \/ \E d \in Defaults : ResultUnwrapOr(d)
  \/ \E fn \in ErrFns : ResultUnwrapOrElse(fn)
  \/ \E message \in Messages : ResultExpect(message)
  \/ \E okFn \in Fns, errFn \in ErrFns : ResultMatch(okFn, errFn)
  \/ OptionIsSome
  \/ OptionIsNone
  \/ OptionUnwrap
  \/ \E d \in Defaults : OptionUnwrapOr(d)
  \/ \E fn \in ValueThunks : OptionUnwrapOrElse(fn)
  \/ \E message \in Messages : OptionExpect(message)
  \/ \E fn \in Fns : OptionMap(fn)
  \/ \E d \in Defaults, fn \in Fns : OptionMapOr(d, fn)
  \/ \E defaultFn \in ValueThunks, fn \in Fns : OptionMapOrElse(defaultFn, fn)
  \/ \E fn \in OptionBindFns : OptionAndThen(fn)
  \/ \E opt \in Options : OptionOr(opt)
  \/ \E fn \in OptionThunks : OptionOrElse(fn)
  \/ \E someFn \in Fns, noneFn \in ValueThunks : OptionMatch(someFn, noneFn)
  \/ \E results \in ResultLists : UtilAll(results)
  \/ \E results \in ResultLists : UtilAny(results)
  \/ \E fn \in Fns, fn2 \in ErrFns \cup ValueThunks : MatchPattern(fn, fn2)
  \/ \E guard \in GuardNames : StandaloneGuard(guard)
  \/ \E promise \in Promises, errorMapper \in ErrorMappers :
       UtilFromPromise(promise, errorMapper)

AlgebraSpec == AlgebraInit /\ [][AlgebraNext]_vars

----------------------------------------------------------------------------
(* Properties of the registry and of Result                                *)

\* C14: the registry handed to a predicate binds every name of
\* options.predicates to the caller's implementation, every other built-in
\* name to the built-in one, and is the built-in registry when no
\* options.predicates is given; a predicate that looks a name up gets the
\* answer of that implementation.
C14_RegistryIsOverlay ==
  /\ \A n \in DOMAIN optionsPredicates : thisPredicates[n] = optionsPredicates[n]
  /\ \A n \in DOMAIN predicates \ DOMAIN optionsPredicates :
       n \in DOMAIN thisPredicates /\ thisPredicates[n] = predicates[n]
  /\ optionsPredicates = NoPredicates => thisPredicates = predicates
  /\ last.op = "predicate" =>
       last.out = Bool(CallPredicate(IF last.fn \in DOMAIN optionsPredicates
                                     THEN optionsPredicates[last.fn]
                                     ELSE predicates[last.fn], last.recv))

\* The caller replaced isNumber, and a predicate that asked p.isNumber about a
\* string got the caller's answer.
C14_Witness ==
  /\ "isNumber" \in DOMAIN optionsPredicates
  /\ last.op = "predicate" /\ last.fn = "isNumber" /\ last.recv = Str(5)
  /\ last.out = Bool(TRUE)

\* The discriminant of the container that a shape predicate accepts.
TagOf(name) ==
  CASE name = "isOk" -> "ok" [] name = "isErr" -> "err"
    [] name = "isSome" -> "some" [] name = "isNone" -> "none"

ShapeNames == {"isOk", "isErr", "isSome", "isNone"}

\* C15: p.isOk(x) is true exactly for an Ok, p.isErr(x) for an Err,
\* p.isSome(x) for a Some and p.isNone(x) for a None; each is false for the
\* other containers and for a value that is no container.
C15_ShapePredicatesClassify ==
  (last.op = "predicate" /\ last.fn \in ShapeNames) =>
     last.out = Bool(last.recv.t = TagOf(last.fn))

\* p.isOk was asked about an Err and answered false.
C15_Witness ==
  /\ last.op = "predicate" /\ last.fn = "isOk" /\ last.recv.t = "err"
  /\ last.out = Bool(FALSE)

\* C16: unwrap on an Ok returns its value; unwrap on an Err throws, and what
\* the thrown error carries is the Err's error.
C16_UnwrapCarriesError ==
  (IsResult(last.recv) /\ last.op = "unwrap") =>
    IF last.recv.t = "ok"
    THEN last.kind = "return" /\ last.out = last.recv.v
    ELSE last.kind = "throw" /\ last.out.t = "error" /\ last.out.v = last.recv.v

\* C17: map on an Ok returns an Ok of fn(value), fn called once on the value;
\* map on an Err returns the Err as it is and does not call fn. mapErr on an
\* Err returns an Err of fn(error), fn called once on the error; mapErr on an
\* Ok returns the Ok as it is and does not call fn.
C17_MapTouchesOneSide ==
  /\ (IsResult(last.recv) /\ last.op = "map") =>
       /\ last.kind = "return"
       /\ IF last.recv.t = "ok"
          THEN /\ last.out = ok(Apply(last.fn, last.recv.v))
               /\ last.calls = <<Invocation(last.fn, last.recv.v)>>
          ELSE last.out = last.recv /\ last.calls = <<>>
  /\ (IsResult(last.recv) /\ last.op = "mapErr") =>
       /\ last.kind = "return"
       /\ IF last.recv.t = "err"
          THEN /\ last.out = err(Apply(last.fn, last.recv.v))
               /\ last.calls = <<Invocation(last.fn, last.recv.v)>>
          ELSE last.out = last.recv /\ last.calls = <<>>

\* map was called on an Err that an earlier call of the chain produced, and
\* returned it.
C17_Witness ==
  /\ steps = 2 /\ last.op = "map" /\ last.recv.t = "err"
  /\ last.out = last.recv /\ last.calls = <<>>

\* C18: andThen on an Ok returns what fn returns for the value, andThen on an
\* Err returns the Err and does not call fn; orElse on an Err returns what fn
\* returns for the error, orElse on an Ok returns the Ok and does not call fn.
C18_BindLaws ==
  /\ (IsResult(last.recv) /\ last.op = "andThen") =>
       /\ last.kind = "return"
       /\ IF last.recv.t = "ok"
          THEN /\ last.out = Apply(last.fn, last.recv.v)
               /\ last.calls = <<Invocation(last.fn, last.recv.v)>>
          ELSE last.out = last.recv /\ last.calls = <<>>
  /\ (IsResult(last.recv) /\ last.op = "orElse") =>
       /\ last.kind = "return"
       /\ IF last.recv.t = "err"
          THEN /\ last.out = Apply(last.fn, last.recv.v)
               /\ last.calls = <<Invocation(last.fn, last.recv.v)>>
          ELSE last.out = last.recv /\ last.calls = <<>>

\* andThen on ok(42) with x => ok(x * 2) returned ok(84).
C18_Witness ==
  /\ last.op = "andThen" /\ last.fn = "okTwice" /\ last.recv = ok(Num(42))
  /\ last.out = ok(Num(84))

\* C19: ok() on an Ok is Some of its value and err() on it is None; ok() on
\* an Err is None and err() on it is Some of its error.
C19_ResultToOption ==
  /\ last.op = "ok" =>
       last.kind = "return"
         /\ last.out = (IF last.recv.t = "ok" THEN some(last.recv.v) ELSE none)
  /\ last.op = "err" =>
       last.kind = "return"
         /\ last.out = (IF last.recv.t = "err" THEN some(last.recv.v) ELSE none)

\* err() was called on an Err holding an Error and returned Some of it.
C19_Witness ==
  /\ last.op = "err" /\ last.recv = err(NewError(Str(2)))
  /\ last.out = some(NewError(Str(2)))

\* C20: a.and(b) is b when a is an Ok and a itself when a is an Err; a.or(b)
\* is a itself when a is an Ok and b when a is an Err.
C20_AndOr ==
  /\ (IsResult(last.recv) /\ last.op = "and") =>
       last.kind = "return"
         /\ last.out = (IF last.recv.t = "ok" THEN last.arg ELSE last.recv)
  /\ (IsResult(last.recv) /\ last.op = "or") =>
       last.kind = "return"
         /\ last.out = (IF last.recv.t = "ok" THEN last.recv ELSE last.arg)

\* and() was called on an Err with an Ok and returned the Err.
C20_Witness ==
  /\ last.op = "and" /\ last.recv = err(Str(1)) /\ last.arg = ok(Num(42))
  /\ last.out = err(Str(1))

\* C21: asyncThen on an Err and asyncOrElse on an Ok return a promise already
\* resolved with the receiver and do not call fn; asyncThen on an Ok returns
\* the promise fn returns for the value, asyncOrElse on an Err the promise fn
\* returns for the error.
C21_AsyncBind ==
  /\ last.op = "asyncThen" =>
       /\ last.kind = "return"
       /\ IF last.recv.t = "ok"
          THEN /\ last.out = Apply(last.fn, last.recv.v)
               /\ last.calls = <<Invocation(last.fn, last.recv.v)>>
          ELSE last.out = PromiseResolve(last.recv) /\ last.calls = <<>>
  /\ last.op = "asyncOrElse" =>
       /\ last.kind = "return"
       /\ IF last.recv.t = "err"
          THEN /\ last.out = Apply(last.fn, last.recv.v)
               /\ last.calls = <<Invocation(last.fn, last.recv.v)>>
          ELSE last.out = PromiseResolve(last.recv) /\ last.calls = <<>>

\* asyncThen was called on an Err and returned a resolved promise of it.
C21_Witness ==
  /\ last.op = "asyncThen" /\ last.recv = err(Str(1))
  /\ last.out = PromiseResolve(err(Str(1))) /\ last.calls = <<>>

\* The last call was the method op of an Option.
OptionCall(op) == IsOption(last.recv) /\ last.op = op

\* The last call returned val after the invocations calls of its callbacks.
Returned(val, calls) ==
  last.kind = "return" /\ last.out = val /\ last.calls = calls

\* C26: on a Some, map returns Some of fn(value), andThen returns fn(value),
\* or and orElse return the Some and call nothing, mapOr and mapOrElse return
\* fn(value); on a None, map and andThen return the None and call nothing,
\* or returns its argument, orElse returns fn(), mapOr returns the default
\* and mapOrElse returns defaultFn().
C26_OptionShortCircuits ==
  LET v == last.recv.v
      onSome == last.recv.t = "some"
      f == last.fn
  IN  /\ OptionCall("map") =>
           IF onSome THEN Returned(some(Apply(f, v)), <<Invocation(f, v)>>)
                     ELSE Returned(none, <<>>)
      /\ OptionCall("andThen") =>
           IF onSome THEN Returned(Apply(f, v), <<Invocation(f, v)>>)
                     ELSE Returned(none, <<>>)
      /\ OptionCall("or") =>
           IF onSome THEN Returned(last.recv, <<>>) ELSE Returned(last.arg, <<>>)
      /\ OptionCall("orElse") =>
           IF onSome THEN Returned(last.recv, <<>>)
                     ELSE Returned(Apply(f, Undefined), <<Invocation(f, Undefined)>>)
      /\ OptionCall("mapOr") =>
           IF onSome THEN Returned(Apply(f, v), <<Invocation(f, v)>>)
                     ELSE Returned(last.arg, <<>>)
      /\ OptionCall("mapOrElse") =>
           IF onSome THEN Returned(Apply(f, v), <<Invocation(f, v)>>)
                     ELSE Returned(Apply(last.fn2, Undefined),
                                   <<Invocation(last.fn2, Undefined)>>)

\* orElse was called on a Some that an earlier call of the chain returned,
\* and returned that Some without calling its function.
C26_Witness ==
  /\ steps = 2 /\ OptionCall("orElse") /\ last.recv.t = "some"
  /\ last.out = last.recv /\ last.calls = <<>>

\* The methods that may throw.
Raising == {"unwrap", "expect"}

\* C22: a method call on a Result or an Option throws exactly when it is
\* unwrap or expect on an Err or a None; unwrap and expect on an Ok or a Some
\* return the value held, and every other method returns on both variants.
C22_OnlyUnwrapAndExpectRaise ==
  (IsResult(last.recv) \/ IsOption(last.recv)) /\ last.op # "predicate" =>
     /\ last.kind = "throw" <=>
          (last.op \in Raising /\ last.recv.t \in {"err", "none"})
     /\ (last.op \in Raising /\ last.recv.t \in {"ok", "some"}) =>
          last.kind = "return" /\ last.out = last.recv.v

\* expect was called on a None and threw an Error.
C22_Witness ==
  /\ last.op = "expect" /\ last.recv = none
  /\ last.kind = "throw" /\ last.out.t = "error"

\* The positions of the array rs that hold a container with discriminant tag.
Positions(rs, tag) == {i \in 1..Len(rs) : rs[i].t = tag}

\* The largest position of a non-empty set.
Latest(S) == CHOOSE i \in S : \A j \in S : j <= i

\* C23: any returns the first Ok of the array when there is one, and for a
\* non-empty array of Errs an Err carrying the error of the last element.
C23_AnyFirstOkElseLastErr ==
  last.op = "any" =>
    LET rs == last.arg.v
    IN  /\ last.kind = "return"
        /\ IF Positions(rs, "ok") # {}
           THEN last.out = rs[First(Positions(rs, "ok"))]
           ELSE rs # <<>> => last.out = err(rs[Latest(Positions(rs, "err"))].v)

\* C24: all returns an Ok of the array of the elements' values, in order,
\* when no element is an Err (of the empty array for an empty input), and
\* otherwise an Err carrying the error of the first Err of the array.
C24_AllOkElseFirstErr ==
  last.op = "all" =>
    LET rs == last.arg.v
    IN  /\ last.kind = "return"
        /\ IF Positions(rs, "err") = {}
           THEN last.out = ok(Arr([i \in 1..Len(rs) |-> rs[i].v]))
           ELSE last.out = err(rs[First(Positions(rs, "err"))].v)

\* all was handed an Ok followed by two different Errs and returned an Err
\* of the first one's error.
C24_Witness ==
  /\ last.op = "all"
  /\ last.arg = Arr(<<ok(Num(42)), err(Str(1)), err(NewError(Str(2)))>>)
  /\ last.out = err(Str(1))

\* C25: the exported match called with a container and a pattern object
\* returns what the pattern's function for the container's variant returns:
\* ok(value) or err(error) for a Result, some(value) or none() for an Option.
C25_MatchPatternDispatches ==
  last.op = "matchPattern" =>
    LET r == last.recv
        branch == IF r.t \in {"ok", "some"} THEN last.fn ELSE last.fn2
        payload == IF r.t = "none" THEN Undefined ELSE r.v
    IN  /\ last.kind = "return"
        /\ last.out = Apply(branch, payload)
        /\ last.calls = <<Invocation(branch, payload)>>

\* C27 as stated: the promise fromPromise returns never rejects, whatever the
\* promise and the mapper; it fulfils with ok(v) when the promise fulfils with
\* v and with err(mapper(e)) when it rejects with e, and the mapper is called
\* only in the rejection case.
C27_FromPromiseNeverRejects ==
  last.op = "fromPromise" =>
    /\ last.kind = "return"
    /\ last.out.t = "pending"
    /\ last.arg.t # "rejected" => last.out = Pending(ok(last.arg.v)) /\ last.calls = <<>>
    /\ last.arg.t = "rejected" => last.out = Pending(err(Apply(last.fn, last.arg.v)))

\* C27: fromPromise returns a promise; it fulfils with ok(v) when the promise
\* handed in fulfils with v, without calling the mapper; when that promise
\* rejects with e the mapper is called once, on e, and the returned promise
\* fulfils with err(mapper(e)) if the mapper returns and rejects with what the
\* mapper throws if it throws.
C27_FromPromise ==
  last.op = "fromPromise" =>
    /\ last.kind = "return"
    /\ IF last.arg.t # "rejected"
       THEN last.out = Pending(ok(last.arg.v)) /\ last.calls = <<>>
       ELSE /\ last.calls = <<Invocation(last.fn, last.arg.v)>>
            /\ IF last.fn = "rethrow"
               THEN last.out = Rejecting(last.arg.v)
               ELSE last.out = Pending(err(Apply(last.fn, last.arg.v)))

\* fromPromise(Promise.reject(new Error(...)), (e) => String(e)) called the
\* mapper on the Error and returned a promise of an Err of its text.
C27_Witness ==
  /\ last.op = "fromPromise"
  /\ last.arg = PromiseReject(NewError(Str(2)))
  /\ last.fn = "String"
  /\ last.calls = <<Invocation("String", NewError(Str(2)))>>
  /\ last.out = Pending(err(String(NewError(Str(2)))))

\* C29: each exported guard isOk, isErr, isSome, isNone answers as the
\* registry's predicate of the same name does, for every value; so it is
\* true of a container of its own variant.
C29_StandaloneGuardsAgree ==
  last.op = "guard" => last.out = Bool(Shape(last.recv, last.fn))

\* A call of when() that ended with the exception of its predicate or of
\* its handler.
WhenThrew ==
  /\ Len(clauses') = Len(clauses) + 1
  /\ "throw" \in {clauses'[Len(clauses')].pmode, clauses'[Len(clauses')].hmode}

\* C28: a call of when() whose predicate or whose handler throws leaves the
\* Matcher's committed flag and its outcome as they were before the call.
C28_ThrowLeavesMatcherAsBefore ==
  [][WhenThrew => (hasMatch' = hasMatch /\ result' = result)]_vars

\* The clauses whose predicate returned a promise that rejects.
Rejected == {c \in 1..Len(clauses) : clauses[c].pmode = "reject"}

\* C30: a clause whose predicate's promise rejects never has its handler
\* invoked, and the promise that default() or orElse() returned on a Matcher
\* with such a clause still settles.
C30_RejectionIsAFalsePredicate ==
  /\ [](\A c \in Rejected : clauses[c].handlerCalls = 0)
  /\ (term.st = "timer" /\ Rejected # {}) ~> (term.st = "done")

====
